---------------------------- MODULE Spec2Model ----------------------------
(***************************************************************************)
(* A model of flame's FossLicenses engine (src/python/flame/license_db.py):*)
(* the rewrite-and-validate pipeline behind expression_license             *)
(* ("normalize") and expression_compatibility_as ("resolveCompatibility"), *)
(* with its two memoization maps and the lazily compiled needle tables.    *)
(*                                                                         *)
(* Text is modelled character by character: a string is a sequence of      *)
(* one-character strings, so that the boundary rules of the regular        *)
(* expressions are the ones the code compiles.                             *)
(***************************************************************************)
EXTENDS Integers, Sequences, FiniteSets, TLC

(***************************************************************************)
(* Characters and elementary string functions                              *)
(***************************************************************************)

\* [a-zA-Z0-9] of the needle patterns
AlNum ==
    {"a","b","c","d","e","f","g","h","i","j","k","l","m","n","o","p","q","r",
     "s","t","u","v","w","x","y","z",
     "A","B","C","D","E","F","G","H","I","J","K","L","M","N","O","P","Q","R",
     "S","T","U","V","W","X","Y","Z",
     "0","1","2","3","4","5","6","7","8","9"}

SP == " "

RECURSIVE Concat(_)
\* ''.join(list of strings)
Concat(ss) == IF ss = <<>> THEN <<>> ELSE Head(ss) \o Concat(Tail(ss))

RECURSIVE Join(_, _)
\* sep.join(list of strings)
Join(sep, ss) ==
    IF ss = <<>> THEN <<>>
    ELSE IF Len(ss) = 1 THEN ss[1]
    ELSE ss[1] \o sep \o Join(sep, Tail(ss))

\* s[p:] starts with w   (p is 1-based)
StartsAt(s, p, w) ==
    /\ p >= 1
    /\ p + Len(w) - 1 <= Len(s)
    /\ \A i \in 1..Len(w) : s[p + i - 1] = w[i]

\* w in s
Contains(s, w) == \E p \in 1..(Len(s) + 1) : StartsAt(s, p, w)

RECURSIVE LStrip(_)
LStrip(s) == IF s # <<>> /\ Head(s) = SP THEN LStrip(Tail(s)) ELSE s

RECURSIVE RStrip(_)
RStrip(s) ==
    IF s # <<>> /\ s[Len(s)] = SP THEN RStrip(SubSeq(s, 1, Len(s) - 1)) ELSE s

\* str.strip()
Strip(s) == RStrip(LStrip(s))

RECURSIVE CollapseBlanks(_)
\* re.sub(' [ ]*', ' ', s)  and  re.sub(r'\s\s*', ' ', s): every run of
\* blanks becomes one blank (the only whitespace of the model is the blank)
CollapseBlanks(s) ==
    IF s = <<>> THEN <<>>
    ELSE IF Head(s) = SP
         THEN <<SP>> \o CollapseBlanks(LStrip(s))
         ELSE <<Head(s)>> \o CollapseBlanks(Tail(s))

RECURSIVE SplitWords(_)
\* str.split(): the blank-separated words
SplitWords(s) ==
    LET t == LStrip(s)
        n == IF \E i \in 1..Len(t) : t[i] = SP
             THEN (CHOOSE i \in 1..Len(t) :
                       t[i] = SP /\ \A j \in 1..(i - 1) : t[j] # SP) - 1
             ELSE Len(t)
    IN  IF t = <<>> THEN <<>>
        ELSE <<SubSeq(t, 1, n)>> \o SplitWords(SubSeq(t, n + 1, Len(t)))

RECURSIVE ReplaceAll(_, _, _)
\* str.replace(old, new) for a non-empty old
ReplaceAll(s, old, new) ==
    IF s = <<>> THEN <<>>
    ELSE IF StartsAt(s, 1, old)
         THEN new \o ReplaceAll(SubSeq(s, Len(old) + 1, Len(s)), old, new)
         ELSE <<Head(s)>> \o ReplaceAll(Tail(s), old, new)

(***************************************************************************)
(* Token Rewriter: the compiled needle patterns and their substitution     *)
(***************************************************************************)

\* the leading group ( |>|\(|^|\)|\||/)  or, with allow_letter,
\* ( |>|\(|^|\)|\||/|[a-zA-Z0-9]): the alternatives tried before '^' ...
LeadBeforeCaret == {" ", ">", "("}
\* ... and after it
LeadAfterCaret(allow_letter) ==
    {")", "|", "/"} \cup (IF allow_letter THEN AlNum ELSE {})

\* the trailing group ( |<|$|\)|\||&)  or, with allow_letter,
\* ( |<|$|\)|\||&|[a-zA-Z0-9])
TrailChars(allow_letter) ==
    {" ", "<", ")", "|", "&"} \cup (IF allow_letter THEN AlNum ELSE {})

\* the needle at q followed by the trailing group: the position after the
\* match, or 0 when there is none
TrailEnd(s, q, needle, allow_letter) ==
    LET e == q + Len(needle)
    IN  IF ~StartsAt(s, q, needle) THEN 0
        ELSE IF e = Len(s) + 1 THEN e
        ELSE IF s[e] \in TrailChars(allow_letter) THEN e + 1
        ELSE 0

\* The match of the pattern that begins at position p, as
\* [found, lead (length of group 1), end (position after the match)].
\* A leading character is consumed, or '^' matches the empty string at the
\* start of the text, in the order of the alternatives.
MatchAt(s, p, needle, allow_letter) ==
    LET alternatives(viaChar, viaCaret) ==
            IF p <= Len(s) /\ s[p] \in LeadBeforeCaret /\ viaChar # 0
            THEN [found |-> TRUE, lead |-> 1, end |-> viaChar]
            ELSE IF viaCaret # 0
            THEN [found |-> TRUE, lead |-> 0, end |-> viaCaret]
            ELSE IF p <= Len(s) /\ s[p] \in LeadAfterCaret(allow_letter)
                    /\ viaChar # 0
            THEN [found |-> TRUE, lead |-> 1, end |-> viaChar]
            ELSE [found |-> FALSE, lead |-> 0, end |-> 0]
    IN  alternatives(IF p <= Len(s) THEN TrailEnd(s, p + 1, needle, allow_letter)
                     ELSE 0,
                     IF p = 1 THEN TrailEnd(s, 1, needle, allow_letter) ELSE 0)

\* regexp.search(text): the leftmost position from which the pattern matches
\* at or after position from, or 0
SearchFrom(s, from, needle, allow_letter) ==
    LET ps == {p \in from..(Len(s) + 1) : MatchAt(s, p, needle, allow_letter).found}
    IN  IF ps = {} THEN 0 ELSE CHOOSE p \in ps : \A q \in ps : p <= q

RECURSIVE SubFrom(_, _, _, _, _)
\* regexp.sub(r'\1 <replacement> \2', text): the non-overlapping matches,
\* left to right, each replaced by its two groups around the padded
\* replacement
SubFrom(s, from, needle, replacement, allow_letter) ==
    LET replaced(p, m) ==
            SubSeq(s, from, p - 1)
            \o SubSeq(s, p, p + m.lead - 1)
            \o <<SP>> \o replacement \o <<SP>>
            \o SubSeq(s, p + m.lead + Len(needle), m.end - 1)
            \o SubFrom(s, m.end, needle, replacement, allow_letter)
        at(p) ==
            IF p = 0 THEN SubSeq(s, from, Len(s))
            ELSE replaced(p, MatchAt(s, p, needle, allow_letter))
    IN  at(SearchFrom(s, from, needle, allow_letter))


RECURSIVE RegexSplit(_, _, _)
\* re.split(alt1|alt2|..., text): the pieces between the leftmost
\* non-overlapping occurrences of the alternatives, tried in order at each
\* position; with keep (a capturing group) the delimiters are pieces too
RegexSplit(s, alts, keep) ==
    LET hits == {p \in 1..Len(s) : \E k \in 1..Len(alts) : StartsAt(s, p, alts[k])}
        p == CHOOSE x \in hits : \A y \in hits : x <= y
        k == CHOOSE x \in 1..Len(alts) :
                 /\ StartsAt(s, p, alts[x])
                 /\ \A y \in 1..(x - 1) : ~StartsAt(s, p, alts[y])
    IN  IF hits = {} THEN <<s>>
        ELSE <<SubSeq(s, 1, p - 1)>>
             \o (IF keep THEN <<alts[k]>> ELSE <<>>)
             \o RegexSplit(SubSeq(s, p + Len(alts[k]), Len(s)), alts, keep)

UpperCase == <<"A","B","C","D","E","F","G","H","I","J","K","L","M","N","O","P",
               "Q","R","S","T","U","V","W","X","Y","Z">>
LowerCase == <<"a","b","c","d","e","f","g","h","i","j","k","l","m","n","o","p",
               "q","r","s","t","u","v","w","x","y","z">>

\* str.lower()
Lower(s) ==
    [i \in 1..Len(s) |->
        IF \E k \in 1..26 : UpperCase[k] = s[i]
        THEN LowerCase[CHOOSE k \in 1..26 : UpperCase[k] = s[i]]
        ELSE s[i]]

\* [f(x) for x in xs if keep(x)] for the two list comprehensions of the code
SelectNonEmpty(xs) == SelectSeq(xs, LAMBDA x : x # <<>>)
StripEach(xs) == [i \in 1..Len(xs) |-> Strip(xs[i])]

(***************************************************************************)
(* Words of the model's definition tables                                  *)
(***************************************************************************)

kwAND  == <<"A","N","D">>
kwOR   == <<"O","R">>
kwWITH == <<"W","I","T","H">>

MIT  == <<"M","I","T">>
BSD  == <<"B","S","D">>
G2   == <<"G","2">>
G3   == <<"G","3">>
G2L  == <<"G","2","L">>
HPN  == <<"H","P","N">>
XKP  == <<"X","K","P">>
ZPL  == <<"Z","P","L">>
ZQ   == <<"Z","Q">>
TOR  == <<"T","O","R">>
GNU  == <<"G","N","U">>
CEX  == <<"C","-","E","x","c","e","p","t","i","o","n">>

\* LICENSE_SPLIT_RE = r'( AND | OR |\(|\))': the alternatives, in a
\* capturing group
LICENSE_SPLIT_RE == << <<SP>> \o kwAND \o <<SP>>, <<SP>> \o kwOR \o <<SP>>, <<"(">>, <<")">> >>

(***************************************************************************)
(* Definition Tables.  The JSON files are outside the engine; the records  *)
(* below are one set of definitions a license directory can hold.          *)
(***************************************************************************)

NoCompat == <<>>

\* the license files of license_dir: spdxid, aliases, compatibility_as
LicenseFiles ==
    << [spdxid |-> MIT, aliases |-> << <<"m","i","t">> >>, compatibility_as |-> NoCompat],
       [spdxid |-> BSD, aliases |-> << <<"b","3">> >>,     compatibility_as |-> NoCompat],
       [spdxid |-> G2L, aliases |-> << <<"g","2","+">> >>, compatibility_as |-> NoCompat],
       [spdxid |-> XKP, aliases |-> <<>>,                  compatibility_as |-> HPN],
       [spdxid |-> ZPL, aliases |-> <<>>,                  compatibility_as |-> ZQ] >>

\* the ambiguity file: 'ambiguities'
AmbiguityFile ==
    << [id |-> GNU, aliases |-> << <<"g","n","u">> >>,
        problem |-> <<"w","h","i","c","h","?">>] >>

\* the duals file: 'dual-licenses'
DualsFile == << [spdxid |-> G2L, newer_versions |-> <<G2, G3>>] >>

\* the operators file: 'operators'
OperatorsFile ==
    << << <<"&">>, kwAND >>, << <<"|">>, kwOR >>, << <<"|","|">>, kwOR >>,
       << <<"a","n","d">>, kwAND >> >>

\* spdx_license_list.LICENSES
SPDX_LICENSES == {MIT, BSD, G2, G3, G2L, HPN, ZPL, TOR}

\* osadl_matrix.supported_licenses(...)
OSADL_SUPPORTED == {MIT, BSD, G2, G3, G2L, HPN, ZQ, TOR}

\* A dict as the sequence of its <<key, value>> items in insertion order.
DictHas(d, k) == \E i \in 1..Len(d) : d[i][1] = k
DictGet(d, k) == d[CHOOSE i \in 1..Len(d) : d[i][1] = k][2]
\* d[k] = v: a new key is appended, a known key keeps its place
DictPut(d, k, v) ==
    IF DictHas(d, k)
    THEN [i \in 1..Len(d) |-> IF d[i][1] = k THEN <<k, v>> ELSE d[i]]
    ELSE Append(d, <<k, v>>)

RECURSIVE AliasItems(_, _, _)
\* for alias in data['aliases']: aliases[alias] = data['spdxid']
AliasItems(d, aliases, spdxid) ==
    IF aliases = <<>> THEN d
    ELSE AliasItems(DictPut(d, CollapseBlanks(Head(aliases)), spdxid),
                    Tail(aliases), spdxid)

RECURSIVE LoadAliases(_, _)
LoadAliases(d, files) ==
    IF files = <<>> THEN d
    ELSE LoadAliases(AliasItems(d, Head(files).aliases, Head(files).spdxid),
                     Tail(files))

RECURSIVE LoadCompats(_, _)
\* if COMPATIBILITY_AS_TAG in data: compats[spdxid] = data[COMPATIBILITY_AS_TAG]
LoadCompats(d, files) ==
    IF files = <<>> THEN d
    ELSE LoadCompats(IF Head(files).compatibility_as # NoCompat
                     THEN DictPut(d, Head(files).spdxid, Head(files).compatibility_as)
                     ELSE d,
                     Tail(files))

RECURSIVE AmbigAliasItems(_, _, _)
AmbigAliasItems(d, aliases, k) ==
    IF aliases = <<>> THEN DictPut(d, k, k)
    ELSE AmbigAliasItems(DictPut(d, Head(aliases), k), Tail(aliases), k)

RECURSIVE LoadAmbigAliases(_, _)
\* data['aliases']: every alias of an ambiguity, then the ambiguity itself
LoadAmbigAliases(d, ambigs) ==
    IF ambigs = <<>> THEN d
    ELSE LoadAmbigAliases(AmbigAliasItems(d, Head(ambigs).aliases, Head(ambigs).id),
                          Tail(ambigs))

\* license_db[FLAME_ALIASES_TAG], [COMPATS_TAG], [LICENSE_OPERATORS_TAG],
\* [AMBIG_TAG]['aliases'], [DUALS_TAG]
ALIASES       == LoadAliases(<<>>, LicenseFiles)
COMPATS       == LoadCompats(<<>>, LicenseFiles)
OPERATORS     == OperatorsFile
AMBIG_ALIASES == LoadAmbigAliases(<<>>, AmbiguityFile)
DUALS         == [i \in 1..Len(DualsFile) |->
                     <<DualsFile[i].spdxid, DualsFile[i].newer_versions>>]

AmbigProblem(real_lic) ==
    AmbiguityFile[CHOOSE i \in 1..Len(AmbiguityFile) :
                      AmbiguityFile[i].id = real_lic].problem

RECURSIVE LongestFirst(_)
\* reversed(OrderedDict(sorted(d.items(), key=lambda x: len(x[0])))): the
\* keys by descending length; the sort is stable, so among keys of one
\* length the later inserted comes first
LongestFirst(d) ==
    IF d = <<>> THEN <<>>
    ELSE LET i == CHOOSE x \in 1..Len(d) :
                      \A y \in 1..Len(d) :
                          \/ Len(d[y][1]) < Len(d[x][1])
                          \/ Len(d[y][1]) = Len(d[x][1]) /\ y <= x
         IN  <<d[i][1]>>
             \o LongestFirst([j \in 1..(Len(d) - 1) |-> IF j < i THEN d[j] ELSE d[j + 1]])

(***************************************************************************)
(* Token Rewriter: the lazily compiled needle table and the rewrite        *)
(***************************************************************************)

\* __init_needles: compile the patterns of a needle tag on its first use
init_needles(needles_map, needles, needle_tag, allow_letter) ==
    IF needle_tag \in DOMAIN needles_map THEN needles_map
    ELSE LET order == LongestFirst(needles)
         IN  needles_map @@
             (needle_tag :> [i \in 1..Len(order) |->
                                [needle |-> order[i], allow_letter |-> allow_letter]])

RECURSIVE RewriteAll(_, _, _)
\* the loop over the compiled needles: a needle that is found is replaced
\* wherever its pattern matches
RewriteAll(c_needles, needles, text) ==
    LET one(c) ==
            IF SearchFrom(text, 1, c.needle, c.allow_letter) # 0
            THEN SubFrom(text, 1, c.needle, DictGet(needles, c.needle), c.allow_letter)
            ELSE text
    IN  IF c_needles = <<>> THEN text
        ELSE RewriteAll(Tail(c_needles), needles, one(Head(c_needles)))

\* __update_license_expression_helper
update_license_expression_helper(needles_map, needles, needle_tag, license_expression, allow_letter) ==
    LET rewritten(nm) ==
            [needles_map |-> nm,
             license_expression |->
                 Strip(CollapseBlanks(
                     RewriteAll(nm[needle_tag], needles, license_expression))),
             identifications |-> <<>>]
    IN  rewritten(init_needles(needles_map, needles, needle_tag, allow_letter))

RECURSIVE OrLaterParts(_)
\* the loop of __update_or_later over the pieces of the split: the new
\* pieces and the updates
OrLaterParts(parts) ==
    LET expanded(lic, rest, trimmed_license, newer_list, inner_new_str) ==
            [new_expr |-> <<inner_new_str>> \o rest.new_expr,
             updates |-> << [license_expression |-> lic,
                             license |-> trimmed_license,
                             updates |-> newer_list,
                             updated_license |-> inner_new_str] >>
                         \o rest.updates]
        inner_new(lic, trimmed_license, newer_list) ==
            [i \in 1..(2 * Len(newer_list) - 1) |->
                IF i % 2 = 0 THEN kwOR
                ELSE ReplaceAll(lic, trimmed_license, newer_list[(i + 1) \div 2])]
        dual(lic, rest, trimmed_license, newer_list) ==
            expanded(lic, rest, trimmed_license, newer_list,
                     <<SP, "(", SP>>
                     \o Join(<<SP>>, inner_new(lic, trimmed_license, newer_list))
                     \o <<SP, ")", SP>>)
        license(lic, rest, trimmed_license) ==
            IF DictHas(DUALS, trimmed_license)
            THEN dual(lic, rest, trimmed_license, DictGet(DUALS, trimmed_license))
            ELSE [new_expr |-> <<lic>> \o rest.new_expr, updates |-> rest.updates]
        piece(lic, rest) ==
            IF Strip(lic) = <<>> THEN rest
            ELSE license(lic, rest, SplitWords(Strip(lic))[1])
    IN  IF parts = <<>> THEN [new_expr |-> <<>>, updates |-> <<>>]
        ELSE piece(Head(parts), OrLaterParts(Tail(parts)))

\* __update_or_later
update_or_later(license_expression) ==
    LET r == OrLaterParts(RegexSplit(license_expression, LICENSE_SPLIT_RE, TRUE))
    IN  [input_license_expression |-> license_expression,
         license_expression |-> Join(<<SP>>, r.new_expr),
         updates |-> r.updates]

(***************************************************************************)
(* Expression Parser: the external license_expression grammar, as far as   *)
(* the engine depends on it.  parse(text) prints the canonical form of a   *)
(* well-formed expression (symbols joined by AND/OR, a WITH pair as one    *)
(* symbol, parentheses only around nested groups) and fails on any other   *)
(* sequence of tokens.                                                     *)
(***************************************************************************)

RECURSIVE Tokenize(_, _)
\* the tokens of a text: parentheses, and the runs of other characters
\* between blanks and parentheses
Tokenize(s, word) ==
    LET flush == IF word = <<>> THEN <<>> ELSE <<word>>
    IN  IF s = <<>> THEN flush
        ELSE IF Head(s) = SP THEN flush \o Tokenize(Tail(s), <<>>)
        ELSE IF Head(s) \in {"(", ")"}
             THEN flush \o << <<Head(s)>> >> \o Tokenize(Tail(s), <<>>)
        ELSE Tokenize(Tail(s), Append(word, Head(s)))

IsKeyword(tok) == Lower(tok) \in {Lower(kwAND), Lower(kwOR), Lower(kwWITH)}
IsSymbol(tok)  == ~IsKeyword(tok) /\ tok # <<"(">> /\ tok # <<")">>

ParseFail == [ok |-> FALSE, next |-> 0, text |-> <<>>, compound |-> FALSE]

\* an operand inside a group: nested groups are printed in parentheses
Wrap(item) ==
    IF item.compound THEN <<"(">> \o item.text \o <<")">> ELSE item.text

RenderGroup(items, op) ==
    IF Len(items) = 1 THEN items[1]
    ELSE [text |-> Join(<<SP>> \o op \o <<SP>>,
                        [i \in 1..Len(items) |-> Wrap(items[i])]),
          compound |-> TRUE]

RECURSIVE ParseOr(_, _)
RECURSIVE ParseAnd(_, _)
RECURSIVE ParseOperands(_, _, _)
RECURSIVE ParseTerm(_, _)

\* term := symbol | symbol WITH symbol | ( expression )
ParseTerm(toks, i) ==
    LET closed(r) ==
            IF r.ok /\ r.next <= Len(toks) /\ toks[r.next] = <<")">>
            THEN [r EXCEPT !.next = r.next + 1]
            ELSE ParseFail
    IN  IF i > Len(toks) THEN ParseFail
        ELSE IF toks[i] = <<"(">> THEN closed(ParseOr(toks, i + 1))
        ELSE IF ~IsSymbol(toks[i]) THEN ParseFail
        ELSE IF i + 1 <= Len(toks) /\ Lower(toks[i + 1]) = Lower(kwWITH)
        THEN IF i + 2 <= Len(toks) /\ IsSymbol(toks[i + 2])
             THEN [ok |-> TRUE, next |-> i + 3, compound |-> FALSE,
                   text |-> toks[i] \o <<SP>> \o kwWITH \o <<SP>> \o toks[i + 2]]
             ELSE ParseFail
        ELSE [ok |-> TRUE, next |-> i + 1, text |-> toks[i], compound |-> FALSE]

\* operand (op operand)*, with the operands of level "and" being terms and
\* those of level "or" being AND-groups
ParseOperands(toks, i, level) ==
    LET op == IF level = "and" THEN kwAND ELSE kwOR
        followed(first, rest) ==
            IF ~rest.ok THEN rest
            ELSE [ok |-> TRUE, next |-> rest.next,
                  items |-> << [text |-> first.text, compound |-> first.compound] >>
                            \o rest.items]
        operand(first) ==
            IF ~first.ok THEN [ok |-> FALSE, next |-> 0, items |-> <<>>]
            ELSE IF ~(first.next <= Len(toks) /\ Lower(toks[first.next]) = Lower(op))
            THEN [ok |-> TRUE, next |-> first.next,
                  items |-> << [text |-> first.text, compound |-> first.compound] >>]
            ELSE followed(first, ParseOperands(toks, first.next + 1, level))
    IN  operand(IF level = "and" THEN ParseTerm(toks, i) ELSE ParseAnd(toks, i))

\* the operands of one level, printed as a group
ParseGroup(r, op) ==
    LET printed(g) ==
            [ok |-> TRUE, next |-> r.next, text |-> g.text, compound |-> g.compound]
    IN  IF ~r.ok THEN ParseFail ELSE printed(RenderGroup(r.items, op))

ParseAnd(toks, i) == ParseGroup(ParseOperands(toks, i, "and"), kwAND)

ParseOr(toks, i) == ParseGroup(ParseOperands(toks, i, "or"), kwOR)

\* str(None), printed for an empty expression
NoneText == <<"N","o","n","e">>

\* str(self.license_expression.parse(text)): [ok, text]; ok is false when
\* the parser raises ParseError
parse(text) ==
    LET printed(toks, r) ==
            IF toks = <<>> THEN [ok |-> TRUE, text |-> NoneText]
            ELSE IF r.ok /\ r.next = Len(toks) + 1 THEN [ok |-> TRUE, text |-> r.text]
            ELSE [ok |-> FALSE, text |-> <<>>]
        tokens(toks) == printed(toks, ParseOr(toks, 1))
    IN  tokens(Tokenize(text, <<>>))

\* the license keys the parser's validator knows
KNOWN_SYMBOLS == SPDX_LICENSES \cup {CEX}

\* self.license_expression.validate(expr).errors: the parse error, or the
\* unknown license keys
validate_errors(expr) ==
    LET toks == Tokenize(expr, <<>>)
    IN  IF ~parse(expr).ok THEN << <<"p","a","r","s","e">> >>
        ELSE SelectSeq(toks, LAMBDA t : IsSymbol(t) /\ t \notin KNOWN_SYMBOLS)

(***************************************************************************)
(* Queries, results and failures                                           *)
(***************************************************************************)

\* class Validation(Enum)
RELAXED  == "RELAXED"
SPDX     == "SPDX"
OSADL    == "OSADL"
SCANCODE == "SCANCODE"

\* the validations argument: None, or a list of Validation members
NoValidations == [none |-> TRUE, modes |-> <<>>]
Validations(modes) == [none |-> FALSE, modes |-> modes]
\* "if validations:" and "Validation.X in validations"
Truthy(validations) == ~validations.none /\ validations.modes # <<>>
Selected(mode, validations) ==
    \E i \in 1..Len(validations.modes) : validations.modes[i] = mode

\* the license_expression argument: a str, or an object of another type
StrInput(text) == [type |-> "str", text |-> text, num |-> 0]
IntInput(n)    == [type |-> "int", text |-> <<>>, num |-> n]
NoneInput      == [type |-> "NoneType", text |-> <<>>, num |-> 0]

Digits == <<"0","1","2","3","4","5","6","7","8","9">>
RECURSIVE Decimal(_)
Decimal(n) ==
    IF n < 10 THEN <<Digits[n + 1]>>
    ELSE Decimal(n \div 10) \o <<Digits[(n % 10) + 1]>>

\* f'{license_expression}': the text a query argument is formatted to
Format(input) ==
    IF input.type = "str" THEN input.text
    ELSE IF input.type = "int" THEN Decimal(input.num)
    ELSE NoneText

\* variants of cache_key that leave one argument out of the key
cache_key_without_validations(expression_text, validations, update_dual) ==
    <<expression_text, [none |-> TRUE, modes |-> <<>>], update_dual>>
cache_key_without_update_dual(expression_text, validations, update_dual) ==
    <<expression_text, validations, TRUE>>

\* cache_key = f'{license_expression}__{validations}__{update_dual}': the
\* three formatted parts.  Neither the printed validations nor the printed
\* flag holds "__", so the parts determine the key and the key the parts.
cache_key(expression_text, validations, update_dual) ==
    <<expression_text, validations, update_dual>>

NoSupport == [licenses |-> <<>>, supported |-> TRUE]
NoProblem == [failed |-> FALSE, text |-> <<>>]

\* FlameException, by the place that raises it
Failure(kind, query, tokens, ambiguities, problem, support) ==
    [kind |-> kind, query |-> query, tokens |-> tokens,
     ambiguities |-> ambiguities, problem |-> problem, support |-> support]
NoFailure == Failure("none", <<>>, <<>>, <<>>, NoProblem, NoSupport)
NoValue   == [none |-> TRUE]

Return(st, val)  == [st |-> st, ok |-> TRUE,  val |-> val,     err |-> NoFailure]
Raise(st, err)   == [st |-> st, ok |-> FALSE, val |-> NoValue, err |-> err]

(***************************************************************************)
(* Validation Engine and Compatibility Resolver                            *)
(***************************************************************************)

\* __license_list: re.split('AND|OR|WITH', expr)
license_list(expr) == RegexSplit(expr, <<kwAND, kwOR, kwWITH>>, FALSE)

\* __validate_compatibility_support
validate_compatibility_support(lic) == lic \in OSADL_SUPPORTED

\* __validate_compatibilities_support
validate_compatibilities_support(licenses) ==
    [licenses  |-> [i \in 1..Len(licenses) |->
                       [license |-> licenses[i],
                        supported |-> validate_compatibility_support(licenses[i])]],
     supported |-> \A i \in 1..Len(licenses) :
                       validate_compatibility_support(licenses[i])]

\* __validate_license_spdx: the raised failure, or NoFailure
validate_license_spdx(expr) ==
    LET lics == StripEach(license_list(expr))
        missing == SelectSeq(lics, LAMBDA lic :
                       ~(lic \in SPDX_LICENSES
                         \/ Contains(Lower(lic), <<"e","x","c","e","p","t","i","o","n">>)))
    IN  IF missing # <<>>
        THEN Failure("spdx", expr, missing, <<>>, NoProblem, NoSupport)
        ELSE NoFailure

\* __validate_license_scancode
validate_license_scancode(expr) ==
    LET errors == validate_errors(expr)
    IN  IF errors # <<>>
        THEN Failure("scancode", expr, errors, <<>>, NoProblem, NoSupport)
        ELSE NoFailure

\* a variant of __validate_license_relaxed that looks for the blank before
\* stripping the license
validate_license_relaxed_unstripped(expr) ==
    LET lics == license_list(expr)
        bad  == SelectSeq(lics, LAMBDA lic : Contains(lic, <<SP>>))
    IN  IF bad # <<>>
        THEN Failure("relaxed", expr, <<Strip(bad[1])>>, <<>>, NoProblem, NoSupport)
        ELSE NoFailure

\* __validate_license_relaxed: the first license with a blank inside raises
validate_license_relaxed(expr) ==
    LET lics == StripEach(license_list(expr))
        bad  == SelectSeq(lics, LAMBDA lic : Contains(lic, <<SP>>))
    IN  IF bad # <<>>
        THEN Failure("relaxed", expr, <<bad[1]>>, <<>>, NoProblem, NoSupport)
        ELSE NoFailure

\* __validate_licenses_osadl
validate_licenses_osadl(compat_supported) ==
    IF ~compat_supported.supported
    THEN Failure("osadl", <<>>, <<>>, <<>>, NoProblem, compat_supported)
    ELSE NoFailure

\* the ambiguity scan of expression_license: one finding for every alias,
\* longest first, that stands between blanks or the ends of the text
RECURSIVE FindAmbiguities(_, _)
FindAmbiguities(aliases, text) ==
    IF aliases = <<>> THEN <<>>
    ELSE LET alias == Head(aliases)
             \* re.search(r'(?:\s+|^)alias(?:\s+|$)', text)
             found == \E p \in 1..(Len(text) + 1) :
                          /\ StartsAt(text, p, alias)
                          /\ (p = 1 \/ text[p - 1] = SP)
                          /\ (p + Len(alias) = Len(text) + 1
                              \/ text[p + Len(alias)] = SP)
             real_lic == DictGet(AMBIG_ALIASES, alias)
         IN  (IF found
              THEN << [license |-> text,
                       ambigous_license |-> real_lic,
                       via |-> alias,
                       problem |-> AmbigProblem(real_lic)] >>
              ELSE <<>>)
             \o FindAmbiguities(Tail(aliases), text)

\* the passes of expression_license between the cache lookup and the
\* validation: aliases, ambiguity scan, operators, dual licenses, parser
rewrite_passes(needles_map_0, license_expression, update_dual) ==
    LET parsed_text(pre_parse, parsed) == IF parsed.ok THEN parsed.text ELSE pre_parse
        after_parse(ret1, ambiguities, ret2, updates_object, pre_parse, parsed) ==
            [needles_map |-> ret2.needles_map,
             alias_rewritten |-> ret1.license_expression,
             replacements |-> ret1.identifications \o ret2.identifications,
             ambiguities |-> ambiguities,
             updates |-> IF update_dual THEN updates_object.updates ELSE <<>>,
             pre_parse |-> pre_parse,
             update_problem |-> IF parsed.ok THEN NoProblem
                                ELSE [failed |-> TRUE,
                                      text |-> IF update_dual THEN pre_parse ELSE <<>>],
             updated_license |-> parsed_text(pre_parse, parsed),
             license_parsed |-> parsed_text(pre_parse, parsed)]
        after_duals(ret1, ambiguities, ret2, updates_object, pre_parse) ==
            after_parse(ret1, ambiguities, ret2, updates_object, pre_parse,
                        parse(pre_parse))
        after_operators(ret1, ambiguities, ret2, updates_object) ==
            after_duals(ret1, ambiguities, ret2, updates_object,
                        IF update_dual THEN updates_object.license_expression
                        ELSE ret2.license_expression)
        after_ambiguities(ret1, ambiguities, ret2) ==
            after_operators(ret1, ambiguities, ret2,
                            update_or_later(ret2.license_expression))
        \* every round of the ambiguity scan runs the operator needles over
        \* its own pattern text; only the compiled table outlives it
        after_aliases(ret1, ambig_order) ==
            after_ambiguities(
                ret1,
                FindAmbiguities(ambig_order, ret1.license_expression),
                update_license_expression_helper(
                    IF ambig_order = <<>> THEN ret1.needles_map
                    ELSE init_needles(ret1.needles_map, OPERATORS, "operator", TRUE),
                    OPERATORS, "operator", ret1.license_expression, TRUE))
    IN  after_aliases(
            update_license_expression_helper(
                needles_map_0, ALIASES, "alias", license_expression, FALSE),
            LongestFirst(AMBIG_ALIASES))

\* the compatibility pass of expression_compatibility_as: the rewrite with
\* the compatibility-as table, blanks collapsed once more
compat_pass(needles_map_0, identified_license) ==
    LET collapsed(ret) == [ret EXCEPT !.license_expression = Strip(CollapseBlanks(@))]
    IN  collapsed(update_license_expression_helper(
                      needles_map_0, COMPATS, "compat", identified_license, FALSE))

\* a step that may raise: the failure goes to the caller, and the call goes
\* on only when there is none
raise_or(st, failure, otherwise) ==
    IF failure.kind # "none" THEN Raise(st, failure) ELSE otherwise

RECURSIVE expression_license(_, _, _, _)
RECURSIVE expression_compatibility_as(_, _, _, _)
RECURSIVE validate_license(_, _, _)

\* __validate_license: the selected modes in the order SPDX, SCANCODE,
\* RELAXED, OSADL; the first that rejects raises.  [st, ok, val, err]
validate_license(st, validations, license_expression) ==
    LET osadl_mode(compat) ==
            IF ~compat.ok THEN Raise(compat.st, compat.err)
            ELSE raise_or(compat.st,
                     validate_licenses_osadl(
                         validate_compatibilities_support(
                             SelectNonEmpty(StripEach(
                                 RegexSplit(compat.val.compat_license,
                                            << <<"(">>, kwOR, kwAND, <<")">> >>,
                                            FALSE))))),
                     Return(compat.st, NoValue))
    IN  IF ~Truthy(validations) THEN Return(st, NoValue)
        ELSE
        raise_or(st, IF Selected(SPDX, validations)
                     THEN validate_license_spdx(license_expression) ELSE NoFailure,
        raise_or(st, IF Selected(SCANCODE, validations)
                     THEN validate_license_scancode(license_expression) ELSE NoFailure,
        raise_or(st, IF Selected(RELAXED, validations)
                     THEN validate_license_relaxed(license_expression) ELSE NoFailure,
        IF ~Selected(OSADL, validations) THEN Return(st, NoValue)
        ELSE osadl_mode(expression_compatibility_as(
                            st, StrInput(license_expression), NoValidations, TRUE)))))

\* a variant of raised_failure that keeps the best-effort text and never
\* raises the parse problem
raised_failure_swallowing_parse(checked, combined) ==
    IF ~checked.ok THEN checked.err ELSE NoFailure

\* the failure expression_license raises after parsing: __validate_license
\* runs on the parsed (or best-effort) text first and its failure goes to
\* the caller; then a parse problem raises the combined failure
raised_failure(checked, combined) ==
    IF ~checked.ok THEN checked.err
    ELSE IF combined.problem.failed THEN combined
    ELSE NoFailure

\* expression_license ("normalize").  st is the engine's mutable state
\* [license_cache, compat_cache, needles_map]; the value is
\* [st, ok, val, err]: the state after the call, and the result or the
\* FlameException raised.
expression_license(st, input, validations, update_dual) ==
    LET result(license_expression, p) ==
            [queried_license |-> license_expression,
             identified_license |-> p.license_parsed,
             identifications |-> p.replacements,
             ambiguities |-> p.ambiguities,
             updated_license |-> p.updated_license,
             license_parsed |-> p.license_parsed,
             updates |-> p.updates]
        memoized(st_1, key, ret) ==
            Return([st_1 EXCEPT !.license_cache = @ @@ (key :> ret)], ret)
        validated(license_expression, key, p, checked) ==
            raise_or(checked.st,
                     raised_failure(
                         checked,
                         Failure("parse", license_expression, <<>>, p.ambiguities,
                                 p.update_problem, NoSupport)),
                     memoized(checked.st, key, result(license_expression, p)))
        rewritten(license_expression, key, p) ==
            validated(license_expression, key, p,
                      validate_license([st EXCEPT !.needles_map = p.needles_map],
                                       validations, p.license_parsed))
        keyed(license_expression, key) ==
            IF key \in DOMAIN st.license_cache
            THEN Return(st, st.license_cache[key])
            ELSE rewritten(license_expression, key,
                           rewrite_passes(st.needles_map, license_expression,
                                          update_dual))
        collapsed(license_expression) ==
            keyed(license_expression,
                  cache_key(license_expression, validations, update_dual))
    IN  IF input.type # "str"
        THEN Raise(st, Failure("type", Format(input), <<>>, <<>>, NoProblem, NoSupport))
        ELSE collapsed(CollapseBlanks(input.text))

\* expression_compatibility_as ("resolveCompatibility")
expression_compatibility_as(st, input, validations, update_dual) ==
    LET result(expression_full, ret1) ==
            [ambiguities |-> expression_full.ambiguities,
             compatibilities |-> ret1.identifications,
             queried_license |-> Format(input),
             identification |-> expression_full,
             identified_license |-> expression_full.identified_license,
             compat_license |-> ret1.license_expression,
             compat_support |->
                 validate_compatibilities_support(
                     SelectNonEmpty(StripEach(
                         RegexSplit(ret1.license_expression, LICENSE_SPLIT_RE, TRUE))))]
        memoized(st_1, key, ret) ==
            Return([st_1 EXCEPT !.compat_cache = @ @@ (key :> ret)], ret)
        validated(key, expression_full, ret1, checked) ==
            IF ~checked.ok THEN Raise(checked.st, checked.err)
            ELSE memoized(checked.st, key, result(expression_full, ret1))
        compatible(key, full, ret1) ==
            validated(key, full.val, ret1,
                      validate_license([full.st EXCEPT !.needles_map = ret1.needles_map],
                                       validations, ret1.license_expression))
        identified(key, full) ==
            IF ~full.ok THEN Raise(full.st, full.err)
            ELSE compatible(key, full,
                            compat_pass(full.st.needles_map,
                                        full.val.identified_license))
        keyed(key) ==
            IF key \in DOMAIN st.compat_cache
            THEN Return(st, st.compat_cache[key])
            ELSE identified(key, expression_license(st, input, validations, update_dual))
    IN  keyed(cache_key(Format(input), validations, update_dual))

(***************************************************************************)
(* Table construction from the definition files, and the strict lookup of  *)
(* a single name                                                           *)
(***************************************************************************)

\* self.license_db before __init_license_db has filled it
NotLoaded == [loaded |-> FALSE]

RECURSIVE AddAliases(_, _, _, _)
\* the alias loop of a definition record: an alias that is already a key of
\* aliases raises, naming the record's id and the id the alias is defined
\* as.  The aliases of a license file lose their repeated blanks first
\* (collapse); those of a compound record do not.
AddAliases(aliases, names, spdxid, collapse) ==
    LET add(alias) ==
            IF DictHas(aliases, alias)
            THEN [ok |-> FALSE, aliases |-> aliases,
                  err |-> Failure("alias", alias,
                                  <<spdxid, DictGet(aliases, alias)>>,
                                  <<>>, NoProblem, NoSupport)]
            ELSE AddAliases(DictPut(aliases, alias, spdxid), Tail(names),
                            spdxid, collapse)
    IN  IF names = <<>>
        THEN [ok |-> TRUE, aliases |-> aliases, err |-> NoFailure]
        ELSE add(IF collapse THEN CollapseBlanks(Head(names)) ELSE Head(names))

RECURSIVE LoadRecords(_, _, _)
\* the loop over the license files (is_license) or the compound records:
\* the record, its aliases, its scancode key (license files only) and its
\* compatibility_as
LoadRecords(db, records, is_license) ==
    LET filled(data, added) ==
            [db EXCEPT
                !.licenses = DictPut(@, data.spdxid, data),
                !.aliases = added.aliases,
                !.scancode_keys =
                    IF is_license /\ "scancode_key" \in DOMAIN data
                    THEN DictPut(@, data.scancode_key, data.spdxid) ELSE @,
                !.compats =
                    IF data.compatibility_as # NoCompat
                    THEN DictPut(@, data.spdxid, data.compatibility_as) ELSE @]
        record(data, added) ==
            IF ~added.ok THEN [ok |-> FALSE, db |-> db, err |-> added.err]
            ELSE LoadRecords(filled(data, added), Tail(records), is_license)
    IN  IF records = <<>> THEN [ok |-> TRUE, db |-> db, err |-> NoFailure]
        ELSE record(Head(records),
                    AddAliases(db.aliases, Head(records).aliases,
                               Head(records).spdxid, is_license))

\* __init_license_db: the license files in the order glob yields them, then
\* the compound records.  [ok, db, err]
init_license_db(files) ==
    LET compounds(loaded) ==
            IF ~loaded.ok THEN loaded
            ELSE LoadRecords(loaded.db, files.compounds, FALSE)
    IN  compounds(LoadRecords([loaded |-> TRUE, licenses |-> <<>>, aliases |-> <<>>,
                               scancode_keys |-> <<>>, compats |-> <<>>],
                              files.licenses, TRUE))

\* the definition files of the engine that answers the queries
EngineFiles == [licenses |-> LicenseFiles, compounds |-> <<>>]

\* __identify_license: the name as a license id, as an operator, as an alias
identify_license(db, name) ==
    LET identified(ret_name, ret_id) ==
            [ok |-> TRUE, err |-> NoFailure,
             val |-> [queried_name |-> name, name |-> ret_name,
                      identified_via |-> ret_id]]
    IN  IF DictHas(db.licenses, name) THEN identified(name, "direct")
        ELSE IF DictHas(OPERATORS, name)
        THEN identified(DictGet(OPERATORS, name), "operator")
        ELSE IF DictHas(db.aliases, name)
        THEN identified(DictGet(db.aliases, name), "alias")
        ELSE [ok |-> FALSE, val |-> NoValue,
              err |-> Failure("identify", name, <<>>, <<>>, NoProblem, NoSupport)]

\* self.license_db[LICENSES_TAG][identified_name]: a name that is no key
\* raises KeyError
license_record(db, identified, field) ==
    IF ~identified.ok THEN identified
    ELSE IF ~DictHas(db.licenses, identified.val.name)
    THEN [ok |-> FALSE, val |-> NoValue,
          err |-> Failure("KeyError", identified.val.name, <<>>, <<>>,
                          NoProblem, NoSupport)]
    ELSE [ok |-> TRUE, err |-> NoFailure,
          val |-> [identified_element |-> identified.val,
                   operator |-> FALSE,
                   license |-> IF field = "aliases"
                               THEN DictGet(db.licenses, identified.val.name).aliases
                               ELSE DictGet(db.licenses, identified.val.name)]]

\* license(name)
license(db, name) ==
    LET found(identified) ==
            IF identified.ok /\ identified.val.identified_via = "operator"
            THEN [ok |-> TRUE, err |-> NoFailure,
                  val |-> [identified_element |-> identified.val,
                           operator |-> TRUE, license |-> <<>>]]
            ELSE license_record(db, identified, "license")
    IN  found(identify_license(db, name))

\* license_complete(name)
license_complete(db, name) ==
    license_record(db, identify_license(db, name), "license")

\* aliases(license_name)
aliases(db, license_name) ==
    license_record(db, identify_license(db, license_name), "aliases")

(***************************************************************************)
(* The engine as a state machine                                           *)
(***************************************************************************)

VARIABLES
    license_cache,   \* self.license_cache: cache key -> result of expression_license
    compat_cache,    \* self.compat_cache: cache key -> result of expression_compatibility_as
    needles_map,     \* self.needles_map: needle tag -> compiled needles
    last,            \* the latest call of an entry point and how it ended
    ncalls,          \* the number of calls made so far
    license_files,   \* the definition files the engine is constructed from
    license_db,      \* self.license_db: the tables __init_license_db builds
    stack            \* the frames of the entry points a call in progress has open

vars == <<license_cache, compat_cache, needles_map, last, ncalls,
          license_files, license_db, stack>>

\* the calls a behaviour may make
MaxCalls == 2
\* the number of atoms a query text of QuerySpec is built from
MaxAtoms == 3

State == [license_cache |-> license_cache, compat_cache |-> compat_cache,
          needles_map |-> needles_map]

NoCall == [op |-> "none", input |-> StrInput(<<>>), validations |-> NoValidations,
           update_dual |-> TRUE, ok |-> TRUE, val |-> NoValue, err |-> NoFailure]

\* FossLicenses.__init__
Init ==
    /\ license_cache = <<>>
    /\ compat_cache = <<>>
    /\ needles_map = <<>>
    /\ last = NoCall
    /\ ncalls = 0
    /\ license_files = EngineFiles
    /\ license_db = init_license_db(EngineFiles).db
    /\ stack = <<>>

Finish(op, input, validations, update_dual, r) ==
    /\ license_cache' = r.st.license_cache
    /\ compat_cache' = r.st.compat_cache
    /\ needles_map' = r.st.needles_map
    /\ last' = [op |-> op, input |-> input, validations |-> validations,
                update_dual |-> update_dual, ok |-> r.ok, val |-> r.val,
                err |-> r.err]
    /\ ncalls' = ncalls + 1
    /\ UNCHANGED <<license_files, license_db, stack>>

\* a caller runs fl.expression_license(input, validations, update_dual)
Normalize(input, validations, update_dual) ==
    Finish("expression_license", input, validations, update_dual,
           expression_license(State, input, validations, update_dual))

\* a caller runs fl.expression_compatibility_as(input, validations, update_dual)
ResolveCompatibility(input, validations, update_dual) ==
    Finish("expression_compatibility_as", input, validations, update_dual,
           expression_compatibility_as(State, input, validations, update_dual))

\* the query arguments of Spec: texts that reach every stage of the
\* pipeline, and an argument that is not a string
SessionInputs ==
    { StrInput(<<"7">>),
      StrInput(<<"g","2","+">>),
      StrInput(ZPL),
      StrInput(<<"7", SP, SP, "7">>),
      IntInput(7) }

SessionValidations ==
    { NoValidations, Validations(<<SPDX>>), Validations(<<OSADL>>) }

Next ==
    /\ ncalls < MaxCalls
    /\ \E input \in SessionInputs, validations \in SessionValidations,
          update_dual \in BOOLEAN :
          \/ Normalize(input, validations, update_dual)
          \/ ResolveCompatibility(input, validations, update_dual)

\* an engine serving a session of calls
Spec == Init /\ [][Next]_vars

\* the atoms the query texts of QuerySpec are built from: a dual license's
\* alias, an ambiguous name, an identifier that holds "OR", a blank and an
\* operator symbol
QueryAtoms ==
    { <<"g","2","+">>, GNU, TOR, <<SP>>, <<"&">> }

RECURSIVE TextsOf(_)
TextsOf(n) ==
    IF n = 0 THEN {<<>>}
    ELSE LET shorter == TextsOf(n - 1)
         IN  shorter \cup {t \o a : t \in shorter, a \in QueryAtoms}

QueryTexts == TextsOf(MaxAtoms)

QueryValidations ==
    { NoValidations, Validations(<<>>), Validations(<<SPDX>>),
      Validations(<<RELAXED>>), Validations(<<OSADL>>), Validations(<<SCANCODE>>),
      Validations(<<RELAXED, SPDX>>) }

\* a fresh engine answering one expression_license query
QueryNext ==
    /\ ncalls < 1
    /\ \E text \in QueryTexts, validations \in QueryValidations,
          update_dual \in BOOLEAN :
          Normalize(StrInput(text), validations, update_dual)

QuerySpec == Init /\ [][QueryNext]_vars

\* the alias lists a definition record of LoadSpec may hold: none, an
\* alias without blanks, one with a blank, one with a run of blanks
AliasChoices ==
    { <<>>, << <<"b","3">> >>, << <<"b", SP, "3">> >>, << <<"b", SP, SP, "3">> >> }

MK == <<"m","-","k">>

\* the license files of LoadSpec, with and without a scancode key
LicenseChoices ==
    { [spdxid |-> id, aliases |-> a, compatibility_as |-> NoCompat] :
          id \in {MIT, BSD}, a \in AliasChoices }
    \cup { [spdxid |-> MIT, aliases |-> a, compatibility_as |-> NoCompat,
            scancode_key |-> MK] : a \in AliasChoices }

\* the compound records of LoadSpec
CompoundChoices ==
    { [spdxid |-> XKP, aliases |-> a, compatibility_as |-> NoCompat] :
          a \in AliasChoices }

\* the license files a directory of LoadSpec holds at most
MaxFiles == 2

RECURSIVE FilesOf(_)
\* the license files in every order glob may yield them
FilesOf(n) ==
    IF n = 0 THEN {<<>>}
    ELSE LET fewer == FilesOf(n - 1)
         IN  fewer \cup {Append(fs, f) : fs \in fewer, f \in LicenseChoices}

\* the names LoadSpec looks up: ids, aliases, an operator, a scancode key
\* and a name no table holds
LookupNames ==
    { MIT, BSD, XKP, <<"b","3">>, <<"b", SP, "3">>, <<"&">>, MK, <<"z","z">> }

\* before construction: a set of definition files, and no tables yet
LoadInit ==
    /\ license_cache = <<>>
    /\ compat_cache = <<>>
    /\ needles_map = <<>>
    /\ last = NoCall
    /\ ncalls = 0
    /\ license_files \in [licenses : FilesOf(MaxFiles),
                          compounds : {<<>>} \cup {<<c>> : c \in CompoundChoices}]
    /\ license_db = NotLoaded
    /\ stack = <<>>

\* the outcome of a call on the tables
Answer(op, name, r) ==
    /\ last' = [op |-> op, input |-> StrInput(name), validations |-> NoValidations,
                update_dual |-> TRUE, ok |-> r.ok, val |-> r.val, err |-> r.err]
    /\ ncalls' = ncalls + 1
    /\ UNCHANGED <<license_cache, compat_cache, needles_map, license_files, stack>>

\* FossLicenses(): __init_license_db builds the tables or raises
Construct ==
    /\ ncalls = 0
    /\ ~license_db.loaded
    /\ LET r == init_license_db(license_files)
       IN  /\ license_db' = IF r.ok THEN r.db ELSE NotLoaded
           /\ Answer("__init__", <<>>, [ok |-> r.ok, val |-> NoValue, err |-> r.err])

\* a caller runs fl.license(name)
License(name) ==
    /\ license_db.loaded
    /\ ncalls < 2
    /\ Answer("license", name, license(license_db, name))
    /\ UNCHANGED license_db

\* a caller runs fl.license_complete(name)
LicenseComplete(name) ==
    /\ license_db.loaded
    /\ ncalls < 2
    /\ Answer("license_complete", name, license_complete(license_db, name))
    /\ UNCHANGED license_db

\* a caller runs fl.aliases(name)
Aliases(name) ==
    /\ license_db.loaded
    /\ ncalls < 2
    /\ Answer("aliases", name, aliases(license_db, name))
    /\ UNCHANGED license_db

LoadNext ==
    \/ Construct
    \/ \E name \in LookupNames :
          \/ License(name)
          \/ LicenseComplete(name)
          \/ Aliases(name)

\* an engine constructed from some definition files, then asked for a name
LoadSpec == LoadInit /\ [][LoadNext]_vars

\* an identifier that holds the letters of an operator spelling, and the
\* name of an exception that begins with the name of a dual license
SANDIA == <<"S","a","n","d","i","a">>
G2LX   == <<"G","2","L","-","e","x">>

\* the atoms the texts of PassSpec's Rewrite are built from
PassAtoms == { <<"g","2","+">>, <<"7">>, <<"|","|">>, <<SP>>, SANDIA }

\* the number of atoms of such a text
MaxPassAtoms == 5

RECURSIVE PassTextsOf(_)
PassTextsOf(n) ==
    IF n = 0 THEN {<<>>}
    ELSE LET shorter == PassTextsOf(n - 1)
         IN  shorter \cup {t \o a : t \in shorter, a \in PassAtoms}

\* the words the texts of PassSpec's Expand are built from
ExpandWords == { G2L, MIT, G2LX, kwWITH, kwAND, <<"(">>, <<")">> }

\* the number of words of such a text
MaxWords == 3

RECURSIVE WordTextsOf(_)
\* texts of words with one blank between them
WordTextsOf(n) ==
    IF n = 0 THEN {<<>>}
    ELSE LET shorter == WordTextsOf(n - 1)
         IN  shorter \cup {IF t = <<>> THEN w ELSE t \o <<SP>> \o w :
                               t \in shorter, w \in ExpandWords}

\* the needle table and the boundary flag expression_license passes with a
\* needle tag
NeedlesOf(needle_tag) == IF needle_tag = "alias" THEN ALIASES ELSE OPERATORS
AllowLetterOf(needle_tag) == needle_tag = "operator"

\* the outcome of one pass
Passed(op, text, needle_tag, val) ==
    /\ last' = [op |-> op, input |-> StrInput(text), validations |-> NoValidations,
                update_dual |-> TRUE, ok |-> TRUE, err |-> NoFailure,
                val |-> val, needle_tag |-> needle_tag]
    /\ ncalls' = ncalls + 1
    /\ UNCHANGED <<license_cache, compat_cache, license_files, license_db, stack>>

\* one pass of the Token Rewriter, as expression_license runs it for the
\* aliases and for the operators
Rewrite(text, needle_tag) ==
    LET ret == update_license_expression_helper(
                   needles_map, NeedlesOf(needle_tag), needle_tag, text,
                   AllowLetterOf(needle_tag))
    IN  /\ needles_map' = ret.needles_map
        /\ Passed("update_license_expression_helper", text, needle_tag,
                  [license_expression |-> ret.license_expression,
                   identifications |-> ret.identifications])

\* one pass of the Dual-License Expander
Expand(text) ==
    /\ Passed("update_or_later", text, "dual", update_or_later(text))
    /\ UNCHANGED needles_map

PassNext ==
    /\ ncalls < 1
    /\ \/ \E text \in PassTextsOf(MaxPassAtoms), needle_tag \in {"alias", "operator"} :
             Rewrite(text, needle_tag)
       \/ \E text \in WordTextsOf(MaxWords) : Expand(text)

\* a fresh engine running one pass of the pipeline on a text
PassSpec == Init /\ [][PassNext]_vars

(***************************************************************************)
(* The entry points step by step: a call in progress is a stack of frames, *)
(* one for every expression_license and expression_compatibility_as that   *)
(* has been entered and has not returned.                                  *)
(***************************************************************************)

\* a variant of osadl_call_validations that hands the caller's validations
\* on to the nested call
osadl_call_validations_inherited(validations) == validations

\* the validations of the expression_compatibility_as call the OSADL mode
\* makes: the parameter's default, None
osadl_call_validations(validations) == NoValidations

\* the frames a call in progress may have open
MaxDepth == 5

NoReturn == [ok |-> TRUE, val |-> NoValue, err |-> NoFailure, returned |-> FALSE]

\* the frame of a call that has just been entered
Frame(fn, input, validations, update_dual) ==
    [fn |-> fn, input |-> input, validations |-> validations,
     update_dual |-> update_dual, pc |-> "start", passes |-> NoValue,
     full |-> NoValue, r |-> NoReturn]

\* a step of a frame ends the frame with a result or a failure ...
Returns(st, ok, val, err) ==
    [act |-> "return", st |-> st,
     result |-> [ok |-> ok, val |-> val, err |-> err, returned |-> TRUE]]
\* ... or enters a nested call and waits for it
Calls(st, frame, callee) ==
    [act |-> "call", st |-> st, frame |-> frame, callee |-> callee]

\* the modes of __validate_license before OSADL: SPDX, SCANCODE, RELAXED;
\* the failure of the first that rejects
first_modes(validations, license_expression) ==
    LET or_else(failure, otherwise) ==
            IF failure.kind # "none" THEN failure ELSE otherwise
    IN  IF ~Truthy(validations) THEN NoFailure
        ELSE or_else(IF Selected(SPDX, validations)
                     THEN validate_license_spdx(license_expression) ELSE NoFailure,
             or_else(IF Selected(SCANCODE, validations)
                     THEN validate_license_scancode(license_expression) ELSE NoFailure,
                     IF Selected(RELAXED, validations)
                     THEN validate_license_relaxed(license_expression) ELSE NoFailure))

\* the OSADL mode after its expression_compatibility_as call has returned
osadl_mode(compat) ==
    IF ~compat.ok THEN compat.err
    ELSE validate_licenses_osadl(
             validate_compatibilities_support(
                 SelectNonEmpty(StripEach(
                     RegexSplit(compat.val.compat_license,
                                << <<"(">>, kwOR, kwAND, <<")">> >>, FALSE)))))

\* __validate_license up to its nested call: the failure raised, the frame
\* waiting for the OSADL mode's call, or the continuation when every
\* selected mode has passed
validate_step(st, f, license_expression, passed) ==
    LET checked(failure) ==
            IF failure.kind # "none" THEN Returns(st, FALSE, NoValue, failure)
            ELSE IF Truthy(f.validations) /\ Selected(OSADL, f.validations)
            THEN Calls(st, [f EXCEPT !.pc = "osadl"],
                       Frame("expression_compatibility_as",
                             StrInput(license_expression),
                             osadl_call_validations(f.validations), TRUE))
            ELSE passed
    IN  checked(first_modes(f.validations, license_expression))

\* the end of expression_license after __validate_license: the combined
\* failure of a parse problem, or the result, memoized
license_end(st, f, license_expression, p) ==
    LET ret == [queried_license |-> license_expression,
                identified_license |-> p.license_parsed,
                identifications |-> p.replacements,
                ambiguities |-> p.ambiguities,
                updated_license |-> p.updated_license,
                license_parsed |-> p.license_parsed,
                updates |-> p.updates]
    IN  IF p.update_problem.failed
        THEN Returns(st, FALSE, NoValue,
                     Failure("parse", license_expression, <<>>, p.ambiguities,
                             p.update_problem, NoSupport))
        ELSE Returns([st EXCEPT !.license_cache =
                          @ @@ (cache_key(license_expression, f.validations,
                                          f.update_dual) :> ret)],
                     TRUE, ret, NoFailure)

\* a step of the frame of expression_license
license_step(st, f) ==
    LET validated(license_expression, p, st_1) ==
            validate_step(st_1, [f EXCEPT !.passes = p], p.license_parsed,
                          license_end(st_1, f, license_expression, p))
        rewritten(license_expression, p) ==
            validated(license_expression, p,
                      [st EXCEPT !.needles_map = p.needles_map])
        keyed(license_expression, key) ==
            IF key \in DOMAIN st.license_cache
            THEN Returns(st, TRUE, st.license_cache[key], NoFailure)
            ELSE rewritten(license_expression,
                           rewrite_passes(st.needles_map, license_expression,
                                          f.update_dual))
        start(license_expression) ==
            keyed(license_expression,
                  cache_key(license_expression, f.validations, f.update_dual))
        osadl(license_expression, failure) ==
            IF failure.kind # "none" THEN Returns(st, FALSE, NoValue, failure)
            ELSE license_end(st, f, license_expression, f.passes)
    IN  IF f.pc = "start"
        THEN IF f.input.type # "str"
             THEN Returns(st, FALSE, NoValue,
                          Failure("type", Format(f.input), <<>>, <<>>, NoProblem,
                                  NoSupport))
             ELSE start(CollapseBlanks(f.input.text))
        ELSE osadl(CollapseBlanks(f.input.text), osadl_mode(f.r))

\* the end of expression_compatibility_as after __validate_license: the
\* result, memoized
compat_end(st, f, expression_full, ret1) ==
    LET ret == [ambiguities |-> expression_full.ambiguities,
                compatibilities |-> ret1.identifications,
                queried_license |-> Format(f.input),
                identification |-> expression_full,
                identified_license |-> expression_full.identified_license,
                compat_license |-> ret1.license_expression,
                compat_support |->
                    validate_compatibilities_support(
                        SelectNonEmpty(StripEach(
                            RegexSplit(ret1.license_expression, LICENSE_SPLIT_RE,
                                       TRUE))))]
    IN  Returns([st EXCEPT !.compat_cache =
                     @ @@ (cache_key(Format(f.input), f.validations,
                                     f.update_dual) :> ret)],
                TRUE, ret, NoFailure)

\* a step of the frame of expression_compatibility_as
compat_step(st, f) ==
    LET compatible(ret1, st_1) ==
            validate_step(st_1, [f EXCEPT !.full = f.r.val, !.passes = ret1],
                          ret1.license_expression,
                          compat_end(st_1, f, f.r.val, ret1))
        identified(ret1) ==
            compatible(ret1, [st EXCEPT !.needles_map = ret1.needles_map])
        osadl(failure) ==
            IF failure.kind # "none" THEN Returns(st, FALSE, NoValue, failure)
            ELSE compat_end(st, f, f.full, f.passes)
    IN  IF f.pc = "start"
        THEN IF cache_key(Format(f.input), f.validations, f.update_dual)
                    \in DOMAIN st.compat_cache
             THEN Returns(st, TRUE,
                          st.compat_cache[cache_key(Format(f.input), f.validations,
                                                    f.update_dual)],
                          NoFailure)
             ELSE Calls(st, [f EXCEPT !.pc = "identified"],
                        Frame("expression_license", f.input, f.validations,
                              f.update_dual))
        ELSE IF f.pc = "identified"
        THEN IF ~f.r.ok THEN Returns(st, FALSE, NoValue, f.r.err)
             ELSE identified(compat_pass(st.needles_map, f.r.val.identified_license))
        ELSE osadl(osadl_mode(f.r))

\* the calls a behaviour of CallSpec may make
MaxSteppedCalls == 1

\* a caller enters an entry point
Call(fn, input, validations, update_dual) ==
    /\ stack = <<>>
    /\ ncalls < MaxSteppedCalls
    /\ stack' = <<Frame(fn, input, validations, update_dual)>>
    /\ UNCHANGED <<license_cache, compat_cache, needles_map, last, ncalls,
                   license_files, license_db>>

\* the frame on top of the stack runs to its next call or to its end; its
\* result or failure goes to the frame below, or to the caller
Step ==
    /\ stack # <<>>
    /\ LET done(top, below, did) ==
               /\ license_cache' = did.st.license_cache
               /\ compat_cache' = did.st.compat_cache
               /\ needles_map' = did.st.needles_map
               /\ IF did.act = "call"
                  THEN /\ Len(stack) < MaxDepth
                       /\ stack' = Append(Append(below, did.frame), did.callee)
                       /\ UNCHANGED <<last, ncalls>>
                  ELSE IF below = <<>>
                  THEN /\ stack' = <<>>
                       /\ last' = [op |-> top.fn, input |-> top.input,
                                   validations |-> top.validations,
                                   update_dual |-> top.update_dual,
                                   ok |-> did.result.ok, val |-> did.result.val,
                                   err |-> did.result.err]
                       /\ ncalls' = ncalls + 1
                  ELSE /\ stack' = Append(SubSeq(below, 1, Len(below) - 1),
                                          [below[Len(below)] EXCEPT !.r = did.result])
                       /\ UNCHANGED <<last, ncalls>>
           run(top) ==
               done(top, SubSeq(stack, 1, Len(stack) - 1),
                    IF top.fn = "expression_license"
                    THEN license_step(State, top) ELSE compat_step(State, top))
       IN  run(stack[Len(stack)])
    /\ UNCHANGED <<license_files, license_db>>

SteppedValidations ==
    { NoValidations, Validations(<<SPDX>>), Validations(<<OSADL>>),
      Validations(<<RELAXED, OSADL>>) }

CallNext ==
    \/ \E input \in SessionInputs, validations \in SteppedValidations,
          update_dual \in BOOLEAN :
          \/ Call("expression_license", input, validations, update_dual)
          \/ Call("expression_compatibility_as", input, validations, update_dual)
    \/ Step

\* an engine serving calls, each run step by step
CallSpec == Init /\ [][CallNext]_vars

(***************************************************************************)
(* Properties                                                              *)
(***************************************************************************)

LastNormalize == last.op = "expression_license"
LastResolve   == last.op = "expression_compatibility_as"

\* the text the latest call queried, as expression_license keys it
LastQuery == CollapseBlanks(Format(last.input))

\* the cache key of the latest call
LastKey ==
    IF LastNormalize
    THEN cache_key(LastQuery, last.validations, last.update_dual)
    ELSE cache_key(Format(last.input), last.validations, last.update_dual)

\* what the rewrite passes make of the latest call's text
LastPasses == rewrite_passes(needles_map, LastQuery, last.update_dual)

\* the latest call was expression_license on a string that the parser
\* rejected after the rewrite passes
LastParseRejected ==
    /\ LastNormalize
    /\ last.input.type = "str"
    /\ LastPasses.update_problem.failed

\* C1 (as stated): when the parser rejects the rewritten text and no
\* validation mode is requested, expression_license returns a result whose
\* identified license is the pre-parse text, with the ambiguity and
\* dual-expansion data gathered so far.
C1_ParseFailureReturnsFallback ==
    (~Truthy(last.validations) /\ LastParseRejected)
    => /\ last.ok
       /\ last.val.identified_license = LastPasses.pre_parse
       /\ last.val.ambiguities = LastPasses.ambiguities
       /\ last.val.updates = LastPasses.updates

\* C1 (amended): when the parser rejects the rewritten text and no
\* validation mode is requested, expression_license raises the combined
\* failure, which carries the parse problem and the ambiguity findings
\* gathered so far; no result is returned and none is memoized.
C1_ParseFailureRaised ==
    (~Truthy(last.validations) /\ LastParseRejected)
    => /\ ~last.ok
       /\ last.val = NoValue
       /\ last.err = Failure("parse", LastQuery, <<>>, LastPasses.ambiguities,
                             LastPasses.update_problem, NoSupport)
       /\ last.err.problem.failed
       /\ LastKey \notin DOMAIN license_cache

C1_Witness ==
    /\ ~Truthy(last.validations)
    /\ LastParseRejected
    /\ ~last.ok
    /\ last.err.kind = "parse"
    /\ last.err.ambiguities # <<>>

\* C2 (as stated): a call on a string that ended in failure has no entry
\* under its own cache key in license_cache nor in compat_cache.
C2_FailedKeyInNeitherCache ==
    (last.op # "none" /\ last.input.type = "str" /\ ~last.ok)
    => /\ LastKey \notin DOMAIN license_cache
       /\ LastKey \notin DOMAIN compat_cache

\* C2 (amended): a failed expression_license on a string has no entry under
\* its cache key in either map, and a failed expression_compatibility_as
\* has none under its key in compat_cache (license_cache may hold the entry
\* its nested expression_license memoized before the compatibility stage
\* failed).
C2_FailedCallNotMemoized ==
    (last.op # "none" /\ ~last.ok)
    => /\ (LastNormalize /\ last.input.type = "str")
              => /\ LastKey \notin DOMAIN license_cache
                 /\ LastKey \notin DOMAIN compat_cache
       /\ LastResolve => LastKey \notin DOMAIN compat_cache

C2_Witness ==
    /\ LastResolve
    /\ ~last.ok
    /\ last.input.type = "str"
    /\ LastKey \in DOMAIN license_cache
    /\ LastKey \notin DOMAIN compat_cache

\* C3: an argument that is not a string is rejected by both entry points
\* with the input-type failure, whatever the caches hold.
C3_NonStringRejected ==
    (last.op # "none" /\ last.input.type # "str")
    => /\ ~last.ok
       /\ last.err.kind = "type"
       /\ last.val = NoValue

\* an occurrence of word in text between two delimiters of the Token
\* Rewriter (blank, parenthesis, pipe, ampersand) or the ends of the text
DelimitedAt(text, p, word) ==
    /\ StartsAt(text, p, word)
    /\ (p = 1 \/ text[p - 1] \in {SP, "(", ")", "|", "&"})
    /\ (p + Len(word) = Len(text) + 1
        \/ text[p + Len(word)] \in {SP, "(", ")", "|", "&"})

\* C4: every ambiguity alias that stands as a delimited token in the
\* alias-rewritten expression is reported as a finding with the ambiguous
\* id and its problem text, and the token is still in the identified
\* license of the result.
C4_DelimitedAmbiguityReported ==
    (LastNormalize /\ last.input.type = "str" /\ last.ok)
    => \A i \in 1..Len(AMBIG_ALIASES) :
           (\E p \in 1..(Len(LastPasses.alias_rewritten) + 1) :
                DelimitedAt(LastPasses.alias_rewritten, p, AMBIG_ALIASES[i][1]))
           => /\ \E k \in 1..Len(last.val.ambiguities) :
                     /\ last.val.ambiguities[k].ambigous_license = AMBIG_ALIASES[i][2]
                     /\ last.val.ambiguities[k].problem = AmbigProblem(AMBIG_ALIASES[i][2])
              /\ Contains(last.val.identified_license, AMBIG_ALIASES[i][1])

\* the result expression_compatibility_as gives for the canonical
\* expression of the latest call
LastCanonicalCompat ==
    expression_compatibility_as(State, StrInput(LastPasses.license_parsed),
                                NoValidations, TRUE)

\* C5: with the OSADL mode alone, a query whose text parses passes exactly
\* when the 'supported' flag expression_compatibility_as returns for the
\* canonical expression is true, and fails with the support table otherwise.
C5_OsadlPassesIffSupported ==
    (/\ LastNormalize
     /\ last.input.type = "str"
     /\ last.validations = Validations(<<OSADL>>)
     /\ ~LastPasses.update_problem.failed
     /\ LastCanonicalCompat.ok)
    => /\ last.ok <=> LastCanonicalCompat.val.compat_support.supported
       /\ ~last.ok => /\ last.err.kind = "osadl"
                      /\ last.err.support = LastCanonicalCompat.val.compat_support

\* the license tokens of an expression: what stands between " AND ",
\* " OR " and parentheses
LicensesBetweenOperators(text) ==
    SelectNonEmpty(StripEach(RegexSplit(text, LICENSE_SPLIT_RE, FALSE)))

\* C6: the support table of expression_compatibility_as has one entry per
\* license token of the compatibility-normalized expression, and the
\* overall flag is true exactly when every license token is supported.
C6_SupportTablePerLicense ==
    (LastResolve /\ last.ok)
    => LET lics  == LicensesBetweenOperators(last.val.compat_license)
           table == last.val.compat_support
       IN  /\ Len(table.licenses) = Len(lics)
           /\ \A i \in 1..Len(lics) : table.licenses[i].license = lics[i]
           /\ table.supported <=> \A i \in 1..Len(lics) : lics[i] \in OSADL_SUPPORTED

RECURSIVE StripParens(_)
\* a piece of an expression without the blanks and parentheses around it
StripParens(s) ==
    IF s # <<>> /\ Head(s) \in {SP, "(", ")"} THEN StripParens(Tail(s))
    ELSE IF s # <<>> /\ s[Len(s)] \in {SP, "(", ")"}
    THEN StripParens(SubSeq(s, 1, Len(s) - 1))
    ELSE s

\* the license tokens of an expression: what AND, OR and WITH separate,
\* whatever the nesting of parentheses
LicenseTokens(text) ==
    SelectNonEmpty([i \in 1..Len(license_list(text)) |->
                       StripParens(license_list(text)[i])])

NotSpdx(lic) ==
    /\ lic \notin SPDX_LICENSES
    /\ ~Contains(Lower(lic), <<"e","x","c","e","p","t","i","o","n">>)

\* C7: with the SPDX mode alone, a query whose text parses passes exactly
\* when every license token of the canonical expression is an SPDX
\* identifier or holds "exception"; otherwise it fails and the failure
\* lists exactly the other tokens.
C7_SpdxPassesIffAllTokensSpdx ==
    (/\ LastNormalize
     /\ last.input.type = "str"
     /\ last.validations = Validations(<<SPDX>>)
     /\ ~LastPasses.update_problem.failed)
    => LET bad == SelectSeq(LicenseTokens(LastPasses.license_parsed), NotSpdx)
       IN  /\ last.ok <=> bad = <<>>
           /\ ~last.ok => /\ last.err.kind = "spdx"
                          /\ SelectNonEmpty(last.err.tokens) = bad

\* position q of text lies inside an occurrence of AND, OR or WITH
InOperator(text, q) ==
    \E w \in {kwAND, kwOR, kwWITH} :
        \E p \in (q - Len(w) + 1)..q : p >= 1 /\ StartsAt(text, p, w)

\* text[i..j] lies between two operators, with no operator inside
OperatorFree(text, i, j) == \A q \in i..j : ~InOperator(text, q)

\* text[i..j] is a whole AND/OR/WITH-split token, outer blanks stripped,
\* that has a blank inside
MultiWordToken(text, i, j) ==
    /\ i < j
    /\ text[i] # SP
    /\ text[j] # SP
    /\ OperatorFree(text, i, j)
    /\ \E k \in (i + 1)..(j - 1) : text[k] = SP
    /\ \A q \in 1..(i - 1) : OperatorFree(text, q, i) => text[q] = SP
    /\ \A q \in (j + 1)..Len(text) : OperatorFree(text, j, q) => text[q] = SP

MultiWordTokens(text) ==
    {ij \in (1..Len(text)) \X (1..Len(text)) : MultiWordToken(text, ij[1], ij[2])}

CombinedFailure(p) ==
    Failure("parse", LastQuery, <<>>, p.ambiguities, p.update_problem, NoSupport)

\* C9: when the parser rejects the rewritten text and one or
\* more validation modes are requested, the failure raised is the combined
\* one, with the parse problem and the pending ambiguity findings.
C9_CombinedFailureRaised ==
    (Truthy(last.validations) /\ LastParseRejected)
    => /\ ~last.ok
       /\ last.err = CombinedFailure(LastPasses)

\* the result of expression_license the latest call handed back
LastIdentification ==
    IF LastNormalize THEN last.val ELSE last.val.identification

\* C10: queries that differ only in update_dual never share a cache entry:
\* every returned or memoized result is the one computed with the
\* update_dual of its own query, so with update_dual false a dual license
\* stays unexpanded and no update is reported.
C10_DualFlagNotShared ==
    /\ (last.op # "none" /\ last.ok)
       => LET p == rewrite_passes(needles_map, LastQuery, last.update_dual)
          IN  /\ LastIdentification.identified_license = p.license_parsed
              /\ LastIdentification.updates = p.updates
              /\ ~last.update_dual => LastIdentification.updates = <<>>
    /\ \A k \in DOMAIN license_cache :
          LET p == rewrite_passes(needles_map, k[1], k[3])
          IN  /\ license_cache[k].identified_license = p.license_parsed
              /\ license_cache[k].updates = p.updates
    /\ \A k \in DOMAIN compat_cache :
          LET p == rewrite_passes(needles_map, CollapseBlanks(k[1]), k[3])
          IN  /\ compat_cache[k].identified_license = p.license_parsed
              /\ compat_cache[k].identification.updates = p.updates

C10_Witness ==
    /\ LastNormalize
    /\ last.ok
    /\ ~last.update_dual
    /\ last.val.identified_license = G2L
    /\ last.val.updates = <<>>
    /\ cache_key(LastQuery, last.validations, TRUE) \in DOMAIN license_cache
    /\ license_cache[cache_key(LastQuery, last.validations, TRUE)].updates # <<>>

\* the definition records in load order: license files, then compounds
AllRecords == license_files.licenses \o license_files.compounds

\* records i and j list the same alias
ShareAlias(i, j) ==
    \E x \in 1..Len(AllRecords[i].aliases), y \in 1..Len(AllRecords[j].aliases) :
        AllRecords[i].aliases[x] = AllRecords[j].aliases[y]

\* records i and j list aliases that differ in their runs of blanks at most
ShareAliasUpToBlanks(i, j) ==
    \E x \in 1..Len(AllRecords[i].aliases), y \in 1..Len(AllRecords[j].aliases) :
        CollapseBlanks(AllRecords[i].aliases[x]) = CollapseBlanks(AllRecords[j].aliases[y])

\* C11: whenever two definition records (license files or compound
\* records, in any load order) list the same alias, table construction fails
\* and the failure names the ids of two records that conflict.
C11_SharedAliasFailsLoad ==
    (/\ last.op = "__init__"
     /\ \E i, j \in 1..Len(AllRecords) : i < j /\ ShareAlias(i, j))
    => /\ ~last.ok
       /\ ~license_db.loaded
       /\ last.err.kind = "alias"
       /\ \E i, j \in 1..Len(AllRecords) :
             /\ i < j
             /\ ShareAliasUpToBlanks(i, j)
             /\ last.err.tokens = <<AllRecords[j].spdxid, AllRecords[i].spdxid>>

LastLookup == last.op \in {"license", "license_complete", "aliases"}

\* the canonical name and method tag of every lookup that resolves a name
Resolutions(name) ==
    {<<name, "direct">> : x \in {1} \cap {IF DictHas(license_db.licenses, name) THEN 1 ELSE 0}}
    \cup {<<DictGet(license_db.aliases, name), "alias">> :
              x \in {1} \cap {IF DictHas(license_db.aliases, name) THEN 1 ELSE 0}}
    \cup {<<DictGet(OPERATORS, name), "operator">> :
              x \in {1} \cap {IF DictHas(OPERATORS, name) THEN 1 ELSE 0}}
    \cup {<<DictGet(license_db.scancode_keys, name), "scancode_key">> :
              x \in {1} \cap {IF DictHas(license_db.scancode_keys, name) THEN 1 ELSE 0}}

\* C12: license(name), license_complete(name) and aliases(name) resolve a
\* name that is a canonical id, an alias, an operator spelling or a scancode
\* key to its canonical name with the matching method tag, and fail, with
\* the unidentified-name failure, only when no lookup resolves the name.
C12_StrictIdentification ==
    LastLookup
    => /\ Resolutions(last.input.text) # {}
              => /\ last.ok
                 /\ <<last.val.identified_element.name,
                      last.val.identified_element.identified_via>>
                        \in Resolutions(last.input.text)
       /\ ~last.ok => /\ last.err.kind = "identify"
                      /\ Resolutions(last.input.text) = {}

RECURSIVE MatchedEvents(_, _, _, _, _)
\* one event for every needle of order whose pattern matches the text when
\* its turn comes, in that order
MatchedEvents(order, needles, needle_tag, text, allow_letter) ==
    LET event(needle) ==
            [queried_name |-> needle, name |-> DictGet(needles, needle),
             identified_via |-> needle_tag]
        matched(needle) ==
            <<event(needle)>>
            \o MatchedEvents(Tail(order), needles, needle_tag,
                             SubFrom(text, 1, needle, DictGet(needles, needle),
                                     allow_letter),
                             allow_letter)
    IN  IF order = <<>> THEN <<>>
        ELSE IF SearchFrom(text, 1, Head(order), allow_letter) # 0
        THEN matched(Head(order))
        ELSE MatchedEvents(Tail(order), needles, needle_tag, text, allow_letter)

\* C13: the identifications of a successful expression_license hold one
\* event (needle, replacement, method tag) for every alias and every
\* operator the Token Rewriter matched, in the longest-first order of the
\* needles.
C13_EventPerMatchedNeedle ==
    (LastNormalize /\ last.ok /\ last.input.type = "str")
    => last.val.identifications =
           MatchedEvents(LongestFirst(ALIASES), ALIASES, "alias", LastQuery, FALSE)
           \o MatchedEvents(LongestFirst(OPERATORS), OPERATORS, "operator",
                            LastPasses.alias_rewritten, TRUE)

LastRewrite == last.op = "update_license_expression_helper"
LastExpand  == last.op = "update_or_later"

\* C14: a second pass of the Token Rewriter over its own output, with the
\* same needle table, returns the text unchanged.
C14_SecondPassUnchanged ==
    LastRewrite
    => update_license_expression_helper(
           needles_map, NeedlesOf(last.needle_tag), last.needle_tag,
           last.val.license_expression, AllowLetterOf(last.needle_tag)
       ).license_expression = last.val.license_expression

PIPES == <<"|","|">>

\* a text of digits, blanks and the operator "||" in which every "||"
\* stands between digits, blanks or the ends of the text
DelimitedPipePairs(text) ==
    /\ \A i \in 1..Len(text) : text[i] \in {"7", SP, "|"}
    /\ \A i \in 1..Len(text) :
          text[i] = "|" =>
              \E p \in {i - 1, i} :
                  /\ StartsAt(text, p, PIPES)
                  /\ (p = 1 \/ text[p - 1] # "|")
                  /\ (p + 2 = Len(text) + 1 \/ text[p + 2] # "|")

\* C15: the Token Rewriter tries "||" before "|", so every delimited "||"
\* of the text is replaced by the mapping of "||" and no part of it is left
\* to the needle "|".
C15_LongerNeedleWins ==
    (/\ LastRewrite
     /\ last.needle_tag = "operator"
     /\ DelimitedPipePairs(last.input.text))
    => last.val.license_expression =
           Strip(CollapseBlanks(
               ReplaceAll(last.input.text, PIPES, <<SP>> \o kwOR \o <<SP>>)))

\* the fragment lic with its leading token replaced by newer, the rest kept
ReplaceLeading(lic, trimmed_license, newer) ==
    LET p == CHOOSE q \in 1..Len(lic) : lic[q] # SP
    IN  SubSeq(lic, 1, p - 1) \o newer
        \o SubSeq(lic, p + Len(trimmed_license), Len(lic))

\* a fragment as the Dual-License Expander is to leave it
ExpandedFragment(lic) ==
    LET trimmed_license == SplitWords(Strip(lic))[1]
        newer_list == DictGet(DUALS, trimmed_license)
    IN  IF ~DictHas(DUALS, trimmed_license) THEN lic
        ELSE <<"(", SP>>
             \o Join(<<SP>> \o kwOR \o <<SP>>,
                     [i \in 1..Len(newer_list) |->
                         ReplaceLeading(lic, trimmed_license, newer_list[i])])
             \o <<SP, ")">>

\* the fragments of a text: the pieces between " AND ", " OR " and the
\* parentheses, and those delimiters, without the blank pieces
Fragments(text) ==
    SelectSeq(RegexSplit(text, LICENSE_SPLIT_RE, TRUE), LAMBDA lic : Strip(lic) # <<>>)

DualFragments(text) ==
    SelectSeq(Fragments(text),
              LAMBDA lic : DictHas(DUALS, SplitWords(Strip(lic))[1]))

\* C16: the Dual-License Expander replaces a fragment whose leading token
\* is a dual license by one parenthesis group of its variants joined by
\* " OR ", a variant being the fragment with only the leading token replaced
\* by a newer version; it records one event per such fragment and leaves
\* the other fragments as they are.
C16_OnlyLeadingTokenExpanded ==
    LastExpand
    => /\ Strip(CollapseBlanks(last.val.license_expression)) =
              Strip(CollapseBlanks(
                  Join(<<SP>>,
                       [i \in 1..Len(Fragments(last.input.text)) |->
                           ExpandedFragment(Fragments(last.input.text)[i])])))
       /\ Len(last.val.updates) = Len(DualFragments(last.input.text))

\* C18: the operator pass leaves a word of letters and digits as it is,
\* whatever operator spelling its letters hold.
C18_WordKeptByOperatorPass ==
    (/\ LastRewrite
     /\ last.needle_tag = "operator"
     /\ \A i \in 1..Len(last.input.text) : last.input.text[i] \in AlNum)
    => last.val.license_expression = last.input.text

\* the OSADL mode is among the validations
WithOsadl(validations) == Truthy(validations) /\ Selected(OSADL, validations)

\* the steps a resolver call without validations takes at most: its start,
\* the one step of its expression_license, its end
PlainResolve == 1 + 1 + 1

\* the steps __validate_license may add to a frame: the OSADL mode's
\* resolver call and the step that takes its result
ValidationSteps(validations) ==
    IF WithOsadl(validations) THEN PlainResolve + 1 ELSE 0

\* the steps a frame and the calls it may still make take at most
RemainingOf(f) ==
    IF f.pc = "osadl" THEN 1
    ELSE IF f.fn = "expression_license" THEN 1 + ValidationSteps(f.validations)
    ELSE IF f.pc = "identified" THEN 1 + ValidationSteps(f.validations)
    ELSE 1 + (1 + ValidationSteps(f.validations))
         + (1 + ValidationSteps(f.validations))

RECURSIVE Remaining(_)
\* the steps the call in progress takes at most
Remaining(frames) ==
    IF frames = <<>> THEN 0
    ELSE RemainingOf(Head(frames)) + Remaining(Tail(frames))

\* what the frame on top of the stack does next
TopStep ==
    IF stack[Len(stack)].fn = "expression_license"
    THEN license_step(State, stack[Len(stack)])
    ELSE compat_step(State, stack[Len(stack)])

\* C17: every call that has been entered ends, with a result or a failure:
\* each step of a call in progress brings the number of steps it may still
\* take down, no frame waits for a call that cannot be entered, and the
\* calls nested in one another (expression_compatibility_as, its
\* expression_license, the OSADL mode's expression_compatibility_as and
\* that call's expression_license) are never more than four deep.
C17_CallsTerminate ==
    /\ [](Len(stack) <= 4)
    /\ []((stack # <<>> /\ TopStep.act = "call") => Len(stack) < 4)
    /\ [][stack # <<>> => Remaining(stack') < Remaining(stack)]_vars
    /\ [][(stack # <<>> /\ stack' = <<>>) =>
              (last'.ok \/ last'.err.kind # "none")]_vars

\* the OSADL mode of a resolver call's expression_license has entered its
\* own resolver call, which has entered expression_license
C17_Witness ==
    /\ Len(stack) = 4
    /\ stack[1].fn = "expression_compatibility_as"
    /\ stack[2].pc = "osadl"
    /\ stack[3].fn = "expression_compatibility_as"
    /\ stack[4].fn = "expression_license"

\* the latest step was a call of an entry point that ended in failure
FailedCall ==
    /\ last'.op \in {"expression_license", "expression_compatibility_as"}
    /\ ncalls' = ncalls + 1
    /\ ~last'.ok

PlainKey(key) == key[2] = NoValidations /\ key[3] = TRUE

=============================================================================
